---- MODULE Spec2Model ----
(***************************************************************************)
(* Model of the HMM model selectors (my_model_selectors.py) and of the     *)
(* recognizer (my_recognizer.py).                                          *)
(*                                                                         *)
(* The external fitter (hmmlearn GaussianHMM) is the environment: a fit    *)
(* either yields a model or raises, a score either yields a finite         *)
(* log-likelihood or raises.  Log-likelihoods are integers; the values the *)
(* code derives from them by division are exact rationals num/den, and     *)
(* float('inf') / float('-inf') are the two infinite values.  ln(N) is     *)
(* tabulated in thousandths, so a BIC score is an integer in thousandths.  *)
(***************************************************************************)
EXTENDS Integers, Sequences, FiniteSets

\* ---------------------------------------------------------------- bounds
max_n_components == 3   \* upper end of the search range (range(min, max + 1))
MaxSeqs == 4            \* most training sequences of the selector's word
MaxLen == 2             \* longest training sequence, in frames
MaxFeatures == 2        \* most features per frame
MaxWords == 3           \* most words in the training vocabulary
MaxModels == 3          \* most entries of the recognizer's model table
MaxItems == 2           \* most test sequences (test_set.num_items)

\* ------------------------------------------------------ program constants
n_constant == 3
min_n_components == 2
num_split == 3

\* log-likelihoods a successful score() call may return
Scores == {-10, -4}

SearchRange == min_n_components..max_n_components

\* --------------------------------------------------- extended real values
Fin(n, d) == [inf |-> 0, num |-> n, den |-> d]
NegInf == [inf |-> -1, num |-> 0, den |-> 1]
PosInf == [inf |-> 1, num |-> 0, den |-> 1]

\* a > b on floats (no NaN: every score is finite)
Gt(a, b) ==
    IF a.inf # b.inf THEN a.inf > b.inf
    ELSE a.inf = 0 /\ a.num * b.den > b.num * a.den

Lt(a, b) == Gt(b, a)

\* a / n for a finite integer a and n > 0
Div(a, n) == Fin(a, n)

\* a - b / n, as the rational (a * n - b) / n
SubDiv(a, b, n) == Fin(a * n - b, n)

RECURSIVE SumSeq(_)
SumSeq(s) == IF s = << >> THEN 0 ELSE Head(s) + SumSeq(Tail(s))

\* np.log(N) in thousandths
LnMilli(N) ==
    << 0, 693, 1099, 1386, 1609, 1792, 1946, 2079, 2197, 2303,
       2398, 2485, 2565, 2639, 2708, 2773, 2833, 2890, 2944, 2996 >>[N]

\* ------------------------------------------------------------- exceptions
NoExc == "none"

\* the outcome of a call that may raise
Ok(v) == [exc |-> NoExc, v |-> v]
Raise(e) == [exc |-> e, v |-> 0]

\* what GaussianHMM.score may do on a fitted model
ScoreOutcomes == {Raise("ValueError")} \cup {Ok(s) : s \in Scores}

\* not yet scored (history only)
Unseen == Raise("unseen")

VARIABLES
    sel,            \* which program runs: a selector's select(), or recognize()
    pc,             \* position in that program
    raised,         \* an exception escaped to the caller
    sequences,      \* self.sequences, each sequence given by its length
    n_features,     \* number of columns of X
    numWords,       \* len(self.words)
    this_word,      \* position of self.this_word in self.words
    constFits,      \* whether fitting n_constant states on the full view succeeds
    X,              \* self.X, as the indices of the sequences it concatenates
    lengths,        \* self.lengths
    best_score,     \* best_bic_score / best_dic_score / best_logL
    best_model,
    num_states,
    model,          \* model / train_model of the current iteration
    logL,
    sum_acc,        \* sum_antiLogL / sum_logL
    num_acc,        \* num_antiLogL / num_tries
    pos,            \* loop position: word in self.words, fold of kf.split, model of models
    X_test,         \* held-out fold of the current split
    backup_X,
    backup_lengths,
    result,         \* what select() returned
    fitCalls,       \* number of base_model calls
    splitCalls,     \* number of folds produced by kf.split / combine_sequences
    obsL,           \* history: outcome of the target-item score per state count
    obsAux,         \* history: per state count, the scores on other words / on folds
    numModels,      \* len(models)
    numItems,       \* test_set.num_items
    idx,
    words_logL,
    best_word,
    probabilities,
    guesses,
    failed          \* history: per test item, the models whose score raised

inputs == << sequences, n_features, numWords, this_word, constFits, numModels, numItems >>
selState == << X, lengths, best_model, num_states, model, logL, sum_acc, num_acc,
               X_test, backup_X, backup_lengths, result, fitCalls, splitCalls,
               obsL, obsAux >>
recState == << idx, words_logL, best_word, probabilities, guesses, failed >>
vars == << sel, pc, raised, pos, best_score, inputs, selState, recState >>

\* ----------------------------------------------------------------- models
None == [k |-> 0, view |-> << >>, n_features |-> 0]

FullView == [i \in 1..Len(sequences) |-> i]

\* lengths of the sequences an index list selects (combine_sequences)
LengthsOf(view) == [i \in 1..Len(view) |-> sequences[view[i]]]

\* outcomes of GaussianHMM(...).fit(self.X, self.lengths): deterministic for a
\* fixed seed, so the fit that select() repeats (n_constant on the full view)
\* has one outcome
FitOutcomes(k, view) ==
    IF k = n_constant /\ view = FullView THEN {constFits} ELSE BOOLEAN

base_model(k, fits) ==
    IF fits THEN [k |-> k, view |-> X, n_features |-> n_features] ELSE None

\* model.score(...): attribute access on None raises AttributeError
score(m, out) == IF m = None THEN Raise("AttributeError") ELSE out

\* variant: a handler that names the scoring error only
ExceptValueError(e) == e = "ValueError"

\* "except Exception as e": both exceptions derive from Exception
ExceptException(e) == e \in {"AttributeError", "ValueError"}

\* ------------------------------------------------------------------- Init
Selectors == {"Constant", "BIC", "DIC", "CV"}

\* training sequences of up to MaxSeqs sequences of up to MaxLen frames
SeqChoices == UNION {[1..n -> 1..MaxLen] : n \in 1..MaxSeqs}

\* the same, every sequence one frame long
UnitSeqChoices == {[i \in 1..n |-> 1] : n \in 1..MaxSeqs}

\* ModelSelector.__init__; each program draws the inputs it reads, the others
\* are held at one value
InitInputs ==
    /\ sel \in Selectors \cup {"recognize"}
    /\ constFits \in (IF sel \in Selectors THEN BOOLEAN ELSE {TRUE})
    /\ sequences \in (CASE sel = "BIC" -> SeqChoices
                        [] sel = "CV" -> UnitSeqChoices
                        [] OTHER -> {<< 1 >>})
    /\ n_features \in (IF sel = "BIC" THEN 1..MaxFeatures ELSE {1})
    /\ numWords \in (IF sel = "DIC" THEN 1..MaxWords ELSE {1})
    /\ this_word \in 1..numWords
    /\ numModels \in (IF sel = "recognize" THEN 0..MaxModels ELSE {0})
    /\ numItems \in (IF sel = "recognize" THEN 0..MaxItems ELSE {0})

\* history of the score calls made for one state count on other words' data
\* (SelectorDIC) or on held-out folds (SelectorCV): how many were made, and how
\* many returned each log-likelihood
NoCalls == [tried |-> 0, cnt |-> [s \in Scores |-> 0]]

Record(h, sc) ==
    [tried |-> h.tried + 1,
     cnt |-> IF sc.exc = NoExc THEN [h.cnt EXCEPT ![sc.v] = @ + 1] ELSE h.cnt]

Init ==
    /\ InitInputs
    /\ pc = "start"
    /\ raised = FALSE
    /\ X = FullView
    /\ lengths = sequences
    /\ best_score = NegInf
    /\ best_model = None
    /\ num_states = 0
    /\ model = None
    /\ logL = 0
    /\ sum_acc = 0
    /\ num_acc = 0
    /\ pos = 0
    /\ X_test = << >>
    /\ backup_X = << >>
    /\ backup_lengths = << >>
    /\ result = None
    /\ fitCalls = 0
    /\ splitCalls = 0
    /\ obsL = [k \in SearchRange |-> Unseen]
    /\ obsAux = [k \in SearchRange |-> NoCalls]
    /\ idx = 0
    /\ words_logL = << >>
    /\ best_word = ""
    /\ probabilities = << >>
    /\ guesses = << >>
    /\ failed = << >>

\* an exception propagates out of select() / recognize()
Propagate ==
    /\ raised' = TRUE
    /\ pc' = "raised"

\* ------------------------------------------------------- SelectorConstant
ConstantSelect ==
    /\ sel = "Constant" /\ pc = "start"
    /\ result' = base_model(n_constant, constFits)
    /\ fitCalls' = fitCalls + 1
    /\ pc' = "done"
    /\ UNCHANGED << sel, raised, pos, best_score, inputs, recState, X, lengths,
                    best_model, num_states, model, logL, sum_acc, num_acc, X_test,
                    backup_X, backup_lengths, splitCalls, obsL, obsAux >>

\* ------------------------------------------------------------ SelectorBIC
FreeParams(k, d) == k * k + 2 * k * d - 1

\* variant: the complexity penalty left out
bic_scoreNoPenalty(L, p, N) == -2 * L * 1000

\* -2 * logL + p * np.log(N), in thousandths
bic_score(L, p, N) == -2 * L * 1000 + p * LnMilli(N)

BICStart ==
    /\ sel = "BIC" /\ pc = "start"
    /\ best_score' = PosInf
    /\ best_model' = base_model(n_constant, constFits)
    /\ fitCalls' = fitCalls + 1
    /\ num_states' = min_n_components
    /\ pc' = "loop"
    /\ UNCHANGED << sel, raised, pos, inputs, recState, X, lengths, model, logL,
                    sum_acc, num_acc, X_test, backup_X, backup_lengths, result,
                    splitCalls, obsL, obsAux >>

\* one iteration of the for loop
BICIter ==
    /\ sel = "BIC" /\ pc = "loop" /\ num_states <= max_n_components
    /\ \E fits \in FitOutcomes(num_states, X), out \in ScoreOutcomes :
        LET m == base_model(num_states, fits)
            sc == score(m, out)
            N == SumSeq(lengths)
            p == FreeParams(num_states, m.n_features)
            bic == Fin(bic_score(sc.v, p, N), 1)
        IN  /\ model' = m
            /\ fitCalls' = fitCalls + 1
            /\ obsL' = [obsL EXCEPT ![num_states] = sc]
            /\ IF sc.exc # NoExc
               THEN IF ExceptException(sc.exc)
                    THEN /\ num_states' = num_states + 1
                         /\ UNCHANGED << pc, raised, logL, best_score, best_model >>
                    ELSE /\ Propagate
                         /\ UNCHANGED << num_states, logL, best_score, best_model >>
               ELSE /\ logL' = sc.v
                    /\ IF Lt(bic, best_score)
                       THEN best_score' = bic /\ best_model' = m
                       ELSE UNCHANGED << best_score, best_model >>
                    /\ num_states' = num_states + 1
                    /\ UNCHANGED << pc, raised >>
    /\ UNCHANGED << sel, pos, inputs, recState, X, lengths, sum_acc, num_acc, X_test,
                    backup_X, backup_lengths, result, splitCalls, obsAux >>

\* "return best_model" after the for loop of SelectorBIC / DIC / CV
Return ==
    /\ sel \in {"BIC", "DIC", "CV"} /\ pc = "loop" /\ num_states > max_n_components
    /\ result' = best_model
    /\ pc' = "done"
    /\ UNCHANGED << sel, raised, pos, best_score, inputs, recState, X, lengths,
                    best_model, num_states, model, logL, sum_acc, num_acc, X_test,
                    backup_X, backup_lengths, fitCalls, splitCalls, obsL, obsAux >>

\* ------------------------------------------------------------ SelectorDIC
\* variant: the anti-likelihood term left out
dic_scoreNoAnti(L, sum, num) ==
    Fin(L, 1)

\* logL - sum_antiLogL / num_antiLogL, or float('-inf') when no other word scored
dic_score(L, sum, num) ==
    IF num # 0 THEN SubDiv(L, sum, num) ELSE NegInf

DICStart ==
    /\ sel = "DIC" /\ pc = "start"
    /\ best_score' = NegInf
    /\ best_model' = base_model(n_constant, constFits)
    /\ fitCalls' = fitCalls + 1
    /\ num_states' = min_n_components
    /\ pc' = "loop"
    /\ UNCHANGED << sel, raised, pos, inputs, recState, X, lengths, model, logL,
                    sum_acc, num_acc, X_test, backup_X, backup_lengths, result,
                    splitCalls, obsL, obsAux >>

\* fit the candidate and score it on this word
DICTarget ==
    /\ sel = "DIC" /\ pc = "loop" /\ num_states <= max_n_components
    /\ \E fits \in FitOutcomes(num_states, X), out \in ScoreOutcomes :
        LET m == base_model(num_states, fits)
            sc == score(m, out)
        IN  /\ model' = m
            /\ fitCalls' = fitCalls + 1
            /\ obsL' = [obsL EXCEPT ![num_states] = sc]
            /\ IF sc.exc # NoExc
               THEN IF ExceptException(sc.exc)
                    THEN /\ num_states' = num_states + 1
                         /\ UNCHANGED << pc, raised, logL, sum_acc, num_acc, pos >>
                    ELSE /\ Propagate
                         /\ UNCHANGED << num_states, logL, sum_acc, num_acc, pos >>
               ELSE /\ logL' = sc.v
                    /\ sum_acc' = 0
                    /\ num_acc' = 0
                    /\ pos' = 1
                    /\ pc' = "anti"
                    /\ UNCHANGED << num_states, raised >>
    /\ UNCHANGED << sel, best_score, inputs, recState, X, lengths, best_model, X_test,
                    backup_X, backup_lengths, result, splitCalls, obsAux >>

\* one iteration of "for word in self.words"
DICAnti ==
    /\ sel = "DIC" /\ pc = "anti" /\ pos <= numWords
    /\ IF pos # this_word
       THEN \E out \in ScoreOutcomes :
            LET sc == score(model, out)
            IN  /\ obsAux' = [obsAux EXCEPT ![num_states] = Record(@, sc)]
                /\ IF sc.exc # NoExc
                   THEN IF ExceptException(sc.exc)
                        THEN /\ pos' = pos + 1
                             /\ UNCHANGED << pc, raised, sum_acc, num_acc >>
                        ELSE /\ Propagate
                             /\ UNCHANGED << pos, sum_acc, num_acc >>
                   ELSE /\ sum_acc' = sum_acc + sc.v
                        /\ num_acc' = num_acc + 1
                        /\ pos' = pos + 1
                        /\ UNCHANGED << pc, raised >>
       ELSE /\ pos' = pos + 1
            /\ UNCHANGED << pc, raised, sum_acc, num_acc, obsAux >>
    /\ UNCHANGED << sel, best_score, inputs, recState, X, lengths, best_model,
                    num_states, model, logL, X_test, backup_X, backup_lengths, result,
                    fitCalls, splitCalls, obsL >>

\* the DIC score of the candidate and the comparison with the best so far
DICDecide ==
    /\ sel = "DIC" /\ pc = "anti" /\ pos > numWords
    /\ LET dic == dic_score(logL, sum_acc, num_acc)
       IN  IF Gt(dic, best_score)
           THEN best_score' = dic /\ best_model' = model
           ELSE UNCHANGED << best_score, best_model >>
    /\ num_states' = num_states + 1
    /\ pc' = "loop"
    /\ UNCHANGED << sel, raised, pos, inputs, recState, X, lengths, model, logL,
                    sum_acc, num_acc, X_test, backup_X, backup_lengths, result,
                    fitCalls, splitCalls, obsL, obsAux >>

\* ------------------------------------------------------------- SelectorCV
\* KFold(n_splits = 3), no shuffle: the first n % 3 folds hold n // 3 + 1
\* consecutive indices, the others n // 3
FoldSize(n, f) == (n \div num_split) + (IF f <= n % num_split THEN 1 ELSE 0)

RECURSIVE FoldStart(_, _)
FoldStart(n, f) == IF f = 1 THEN 1 ELSE FoldStart(n, f - 1) + FoldSize(n, f - 1)

test_index(n, f) == [i \in 1..FoldSize(n, f) |-> FoldStart(n, f) + i - 1]

train_index(n, f) ==
    LET InTrain(i) == i < FoldStart(n, f) \/ i >= FoldStart(n, f) + FoldSize(n, f)
    IN  SelectSeq([i \in 1..n |-> i], InTrain)

\* variant: the comparison off by one
TooFewSequencesOffByOne == Len(sequences) < num_split - 1

\* len(self.sequences) < num_split
TooFewSequences == Len(sequences) < num_split

CVStart ==
    /\ sel = "CV" /\ pc = "start"
    /\ best_score' = NegInf
    /\ LET m == base_model(n_constant, constFits)
       IN  /\ best_model' = m
           /\ fitCalls' = fitCalls + 1
           /\ IF TooFewSequences
              THEN /\ result' = m
                   /\ pc' = "done"
                   /\ UNCHANGED num_states
              ELSE /\ num_states' = min_n_components
                   /\ pc' = "loop"
                   /\ UNCHANGED result
    /\ UNCHANGED << sel, raised, pos, inputs, recState, X, lengths, model, logL,
                    sum_acc, num_acc, X_test, backup_X, backup_lengths, splitCalls,
                    obsL, obsAux >>

\* top of "for num_states in range(...)": the accumulators are reset and
\* kf.split starts; KFold raises ValueError for fewer samples than splits
CVNextK ==
    /\ sel = "CV" /\ pc = "loop" /\ num_states <= max_n_components
    /\ sum_acc' = 0
    /\ num_acc' = 0
    /\ IF Len(sequences) < num_split
       THEN Propagate /\ UNCHANGED pos
       ELSE pos' = 1 /\ pc' = "fold" /\ UNCHANGED raised
    /\ UNCHANGED << sel, best_score, inputs, recState, X, lengths, best_model,
                    num_states, model, logL, X_test, backup_X, backup_lengths, result,
                    fitCalls, splitCalls, obsL, obsAux >>

\* the next fold: combine_sequences, then self.X, self.lengths are backed up
\* and replaced by the fold's training part
CVSplit ==
    /\ sel = "CV" /\ pc = "fold" /\ pos <= num_split
    /\ LET n == Len(sequences)
       IN  /\ X_test' = test_index(n, pos)
           /\ backup_X' = X
           /\ backup_lengths' = lengths
           /\ X' = train_index(n, pos)
           /\ lengths' = LengthsOf(train_index(n, pos))
    /\ splitCalls' = splitCalls + 1
    /\ pc' = "fit"
    /\ UNCHANGED << sel, raised, pos, best_score, inputs, recState, best_model,
                    num_states, model, logL, sum_acc, num_acc, result, fitCalls,
                    obsL, obsAux >>

\* variant: the backup put back only after a successful fit
RestoreOnSuccess(m, cur, backup) == IF m # None THEN backup ELSE cur

\* variant: the backup never put back
NoRestore(m, cur, backup) == cur

\* the view self.X, self.lengths holds after base_model returned m
Restore(m, cur, backup) == backup

\* train_model = self.base_model(num_states), then the backup is put back
CVFit ==
    /\ sel = "CV" /\ pc = "fit"
    /\ \E fits \in FitOutcomes(num_states, X) :
        LET m == base_model(num_states, fits)
        IN  /\ model' = m
            /\ X' = Restore(m, X, backup_X)
            /\ lengths' = Restore(m, lengths, backup_lengths)
    /\ fitCalls' = fitCalls + 1
    /\ pc' = "score"
    /\ UNCHANGED << sel, raised, pos, best_score, inputs, recState, best_model,
                    num_states, logL, sum_acc, num_acc, X_test, backup_X,
                    backup_lengths, result, splitCalls, obsL, obsAux >>

\* train_model.score(X_test, X_test_len) inside try / except
CVScore ==
    /\ sel = "CV" /\ pc = "score"
    /\ \E out \in ScoreOutcomes :
        LET sc == score(model, out)
        IN  /\ obsAux' = [obsAux EXCEPT ![num_states] = Record(@, sc)]
            /\ IF sc.exc # NoExc
               THEN IF ExceptException(sc.exc)
                    THEN /\ pos' = pos + 1
                         /\ pc' = "fold"
                         /\ UNCHANGED << raised, sum_acc, num_acc >>
                    ELSE /\ Propagate
                         /\ UNCHANGED << pos, sum_acc, num_acc >>
               ELSE /\ sum_acc' = sum_acc + sc.v
                    /\ num_acc' = num_acc + 1
                    /\ pos' = pos + 1
                    /\ pc' = "fold"
                    /\ UNCHANGED raised
    /\ UNCHANGED << sel, best_score, inputs, recState, X, lengths, best_model,
                    num_states, model, logL, X_test, backup_X, backup_lengths, result,
                    fitCalls, splitCalls, obsL >>

\* sum_logL / num_tries, or float('-inf') when no fold scored
avg_logL(sum, num) ==
    IF num > 0 THEN Div(sum, num) ELSE NegInf

\* after the folds: the average, the comparison and the refit on self.X
CVDecide ==
    /\ sel = "CV" /\ pc = "fold" /\ pos > num_split
    /\ LET avg == avg_logL(sum_acc, num_acc)
       IN  IF Gt(avg, best_score)
           THEN \E fits \in FitOutcomes(num_states, X) :
                /\ model' = base_model(num_states, fits)
                /\ best_score' = avg
                /\ best_model' = base_model(num_states, fits)
                /\ fitCalls' = fitCalls + 1
           ELSE UNCHANGED << model, best_score, best_model, fitCalls >>
    /\ num_states' = num_states + 1
    /\ pc' = "loop"
    /\ UNCHANGED << sel, raised, pos, inputs, recState, X, lengths, logL, sum_acc,
                    num_acc, X_test, backup_X, backup_lengths, result, splitCalls,
                    obsL, obsAux >>

\* -------------------------------------------------------------- recognize
\* the keys of models, in the dict's iteration order
Vocabulary == << "A", "B", "C", "D" >>

\* what model.score may do for an entry of models, which may be None
TableScoreOutcomes == ScoreOutcomes \cup {Raise("AttributeError")}

\* variant: a failed score recorded as 0
FailedLogLZero == Fin(0, 1)

\* logL = float('-inf') in the except branch
FailedLogL == NegInf

RecStart ==
    /\ sel = "recognize" /\ pc = "start"
    /\ probabilities' = << >>
    /\ guesses' = << >>
    /\ idx' = 0
    /\ pc' = "items"
    /\ UNCHANGED << sel, raised, pos, best_score, inputs, selState, words_logL,
                    best_word, failed >>

\* top of "for idx in range(test_set.num_items)"
RecNextItem ==
    /\ sel = "recognize" /\ pc = "items" /\ idx < numItems
    /\ best_score' = NegInf
    /\ best_word' = ""
    /\ words_logL' = << >>
    /\ failed' = Append(failed, {})
    /\ pos' = 1
    /\ pc' = "words"
    /\ UNCHANGED << sel, raised, inputs, selState, idx, probabilities, guesses >>

\* one iteration of "for word, model in models.items()"
RecScore ==
    /\ sel = "recognize" /\ pc = "words" /\ pos <= numModels
    /\ \E out \in TableScoreOutcomes :
        LET word == Vocabulary[pos]
            caught == out.exc # NoExc /\ ExceptException(out.exc)
            l == IF out.exc = NoExc THEN Fin(out.v, 1) ELSE FailedLogL
        IN  IF out.exc # NoExc /\ ~ExceptException(out.exc)
            THEN /\ Propagate
                 /\ UNCHANGED << pos, best_score, words_logL, best_word, failed >>
            ELSE /\ words_logL' = [w \in DOMAIN words_logL \cup {word} |->
                                      IF w = word THEN l ELSE words_logL[w]]
                 /\ failed' = [failed EXCEPT ![Len(failed)] =
                                  IF caught THEN @ \cup {word} ELSE @]
                 /\ IF Gt(l, best_score)
                    THEN best_score' = l /\ best_word' = word
                    ELSE UNCHANGED << best_score, best_word >>
                 /\ pos' = pos + 1
                 /\ UNCHANGED << pc, raised >>
    /\ UNCHANGED << sel, inputs, selState, idx, probabilities, guesses >>

\* probabilities.append(words_logL); guesses.append(best_word)
RecAppend ==
    /\ sel = "recognize" /\ pc = "words" /\ pos > numModels
    /\ probabilities' = Append(probabilities, words_logL)
    /\ guesses' = Append(guesses, best_word)
    /\ idx' = idx + 1
    /\ pc' = "items"
    /\ UNCHANGED << sel, raised, pos, best_score, inputs, selState, words_logL,
                    best_word, failed >>

\* return probabilities, guesses
RecReturn ==
    /\ sel = "recognize" /\ pc = "items" /\ idx >= numItems
    /\ pc' = "done"
    /\ UNCHANGED << sel, raised, pos, best_score, inputs, selState, recState >>

SelectNext ==
    \/ ConstantSelect
    \/ BICStart \/ BICIter
    \/ DICStart \/ DICTarget \/ DICAnti \/ DICDecide
    \/ CVStart \/ CVNextK \/ CVSplit \/ CVFit \/ CVScore \/ CVDecide
    \/ Return

RecNext == RecStart \/ RecNextItem \/ RecScore \/ RecAppend \/ RecReturn

Next == SelectNext \/ RecNext

Spec == Init /\ [][Next]_vars

\* one call of select(): the interpreter runs the single thread to its end, so
\* a step that is ready is taken
SelectInit == Init /\ sel \in Selectors

SelectSpec == SelectInit /\ [][SelectNext]_vars /\ WF_vars(SelectNext)

\* ================================================================ claims
Done == pc = "done"

RECURSIVE SumOver(_, _)
SumOver(S, f) ==
    IF S = {} THEN 0
    ELSE LET x == CHOOSE y \in S : TRUE IN f[x] + SumOver(S \ {x}, f)

\* the model base_model(k) yields on the word's whole training data
FullModel(k) == [k |-> k, view |-> FullView, n_features |-> n_features]

\* the constant-state fallback: base_model(n_constant) on the whole data
Fallback == IF constFits THEN FullModel(n_constant) ELSE None

\* state counts whose fit and score on the word's own data succeeded
Scored == {k \in SearchRange : obsL[k].exc = NoExc}

\* state counts whose fit or score on the word's own data failed
Skipped == {k \in SearchRange : obsL[k].exc \in {"AttributeError", "ValueError"}}

\* number and sum of the successful scores on other words / held-out folds
Succ(k) == SumOver(Scores, obsAux[k].cnt)
SumSucc(k) == SumOver(Scores, [s \in Scores |-> s * obsAux[k].cnt[s]])

\* C1: select() of every selector returns a model, never None, whatever fits
\* and scores fail; when every state count of the range fails, it is the
\* constant-state fallback model.
C1_SelectReturnsModel ==
    (sel \in Selectors /\ Done) => result # None

\* C2: no exception escapes select() of any selector, whatever fits and scores
\* fail (a None candidate included), and select() runs to its return.
C2_SelectNeverRaises ==
    /\ [](~raised /\ pc # "raised")
    /\ <>(Done /\ ~raised)

C2_Witness ==
    /\ sel = "CV" /\ Done
    /\ \E k \in SearchRange : obsAux[k].tried = num_split /\ Succ(k) = 0
    /\ result = None

\* BIC(k) = -2 L(k) + p(k) ln(N), p(k) = k^2 + 2 k d - 1, N = sum(lengths),
\* recomputed from the observed log-likelihoods, in thousandths
BICOf(k) ==
    -2000 * obsL[k].v
        + (k * k + 2 * k * n_features - 1) * LnMilli(SumSeq(sequences))

\* C3: when some state count fits and scores, SelectorBIC returns the model
\* of a state count that minimises the BIC among those that fit and scored.
C3_BICArgmin ==
    (sel = "BIC" /\ Done /\ Scored # {}) =>
        /\ result = FullModel(result.k)
        /\ result.k \in Scored
        /\ \A j \in Scored : BICOf(result.k) <= BICOf(j)

C3_Witness ==
    /\ sel = "BIC" /\ Done /\ Scored = SearchRange
    /\ result.k = min_n_components
    /\ \E j \in Scored : obsL[j].v > obsL[result.k].v /\ BICOf(j) > BICOf(result.k)

\* the words of the model table
Words == {Vocabulary[p] : p \in 1..numModels}

\* the words whose model scored test item i without raising
Valid(i) == Words \ failed[i]

\* word w holds a maximum of the ScoreTable of test item i among the given words
IsMax(i, w, among) == \A x \in among : ~Gt(probabilities[i][x], probabilities[i][w])

\* C4: for a non-empty model table every guess is a word of the table with
\* the maximum score of its ScoreTable, and it is the first word on a total
\* tie, all scores being -inf included.
C4_GuessIsArgmax ==
    (sel = "recognize" /\ Done /\ numModels > 0) =>
        \A i \in 1..numItems :
            /\ guesses[i] \in Words
            /\ IsMax(i, guesses[i], Words)
            /\ (\A w \in Words : probabilities[i][w] = probabilities[i][Vocabulary[1]])
                   => guesses[i] = Vocabulary[1]

\* C5: a score that raises is recorded as -inf and does not propagate; every
\* model and every test item is still processed, and the guess is a word
\* with the maximum score among the models that did score.
C5_ScoreFailureAbsorbed ==
    sel = "recognize" =>
        /\ ~raised
        /\ Done =>
            /\ Len(probabilities) = numItems
            /\ Len(guesses) = numItems
            /\ \A i \in 1..numItems :
                /\ DOMAIN probabilities[i] = Words
                /\ \A w \in Words : w \in failed[i] <=> probabilities[i][w] = NegInf
                /\ Valid(i) # {} =>
                       (guesses[i] \in Valid(i) /\ IsMax(i, guesses[i], Valid(i)))

C5_Witness ==
    /\ sel = "recognize" /\ Done /\ numItems = 2 /\ numModels = 3
    /\ failed[1] = {"B"} /\ guesses[1] = "C"
    /\ failed[2] = {"A"} /\ guesses[2] = "B"

\* C6: the model SelectorCV keeps and returns was fitted on the word's whole
\* training data, never on a fold's training part.
C6_CVReturnsFullFit ==
    sel = "CV" =>
        /\ best_model # None => best_model.view = FullView
        /\ (Done /\ result # None) => result.view = FullView

C6_Witness ==
    /\ sel = "CV" /\ Done /\ Len(sequences) >= num_split
    /\ result = FullModel(min_n_components)
    /\ \E k \in SearchRange : 0 < Succ(k) /\ Succ(k) < num_split

\* C7: with fewer than 3 sequences SelectorCV returns base_model(n_constant):
\* nothing is split and nothing else is fitted.
C7_CVTooFewSequences ==
    (sel = "CV" /\ Len(sequences) < num_split) =>
        /\ pc \in {"start", "done"}
        /\ splitCalls = 0
        /\ fitCalls <= 1
        /\ obsAux = [k \in SearchRange |-> NoCalls]
        /\ Done => (fitCalls = 1 /\ result = Fallback)

C7_Witness ==
    sel = "CV" /\ Done /\ Len(sequences) = num_split - 1 /\ result = FullModel(n_constant)

\* C8: self.X, self.lengths hold a fold's training part only while that fold
\* is fitted; at every held-out score, at the refit and at the return they are
\* the word's whole training data again, whether the fold's fit failed or not.
C8_CVViewRestored ==
    sel = "CV" =>
        /\ pc # "fit" => (X = FullView /\ lengths = sequences)
        /\ pc = "fit" => (backup_X = FullView /\ backup_lengths = sequences)

C8_Witness ==
    sel = "CV" /\ pc = "score" /\ model = None /\ pos = num_split /\ X = FullView

\* state counts with a finite DIC: scored on this word and on some other word
DICFinite == {k \in Scored : Succ(k) > 0}

\* DIC(j) <= DIC(k), DIC(k) = L(k) - SumSucc(k) / Succ(k), for j, k in DICFinite
DICLe(j, k) ==
    (obsL[j].v * Succ(j) - SumSucc(j)) * Succ(k)
        <= (obsL[k].v * Succ(k) - SumSucc(k)) * Succ(j)

\* C9: SelectorDIC returns the model of a state count with the maximum DIC
\* among those with a finite DIC; a candidate no other word could score never
\* wins (the fallback stays when there is no other); a state count that fails
\* on this word is skipped and scored on no other word.
C9_DICArgmax ==
    sel = "DIC" =>
        /\ \A k \in Skipped : obsAux[k].tried = 0
        /\ Done =>
            /\ \A k \in Scored : obsAux[k].tried = numWords - 1
            /\ DICFinite # {} =>
                /\ result = FullModel(result.k)
                /\ result.k \in DICFinite
                /\ \A j \in DICFinite : DICLe(j, result.k)
            /\ DICFinite = {} => result = Fallback

C9_Witness ==
    /\ sel = "DIC" /\ Done /\ numWords = 3
    /\ DICFinite = SearchRange
    /\ result.k = max_n_components
    /\ \E k \in SearchRange : Succ(k) = 1
    /\ \E k \in SearchRange : Succ(k) = 2 /\ SumSucc(k) = -14

\* state counts with at least one fold that fitted and scored
CVScored == {k \in SearchRange : Succ(k) > 0}

\* average(j) <= average(k) over the successful folds, for j, k in CVScored
AvgLe(j, k) == SumSucc(j) * Succ(k) <= SumSucc(k) * Succ(j)

\* C10: with at least 3 sequences SelectorCV returns the model of a state
\* count with the maximum average held-out log-likelihood over its successful
\* folds; a state count with no successful fold is never chosen.
C10_CVArgmax ==
    (sel = "CV" /\ Done /\ Len(sequences) >= num_split /\ CVScored # {}) =>
        /\ result.k \in CVScored
        /\ \A j \in CVScored : AvgLe(j, result.k)

====
